---- MODULE Spec2Model ----
(***************************************************************************)
(* The file-backed vector store of the job-search assistant                *)
(* (simple_vector_store.py): one SimpleVectorStore instance at a time over *)
(* one directory holding two artifacts, vectors.pkl and metadata.json.     *)
(*                                                                         *)
(* A stored metadata entry is a function from keys ("id", "text",         *)
(* "timestamp", and the caller's keys) to values.  A generated id          *)
(* f"doc_{n}_{t}" is the triple <<"doc", n, t>>.  A file is a record       *)
(* [st, data] with st one of "absent", "ok", "corrupt".                    *)
(*                                                                         *)
(* The JSON record stores (storage/json_db.py, storage/interview_db.py):   *)
(* a file of a data directory is a record [key, text]; key is "plain",     *)
(* "missing", or the user the bytes are encrypted for.                     *)
(***************************************************************************)
EXTENDS Integers, Sequences, FiniteSets, TLC

VARIABLES
    isOpen,         \* a SimpleVectorStore instance exists in the process
    embedding,      \* self.embedding: the model the instance embeds with
    vectors,        \* self.vectors
    metadata,       \* self.metadata
    vectors_file,   \* the artifact at self.vectors_file
    metadata_file,  \* the artifact at self.metadata_file
    last,           \* the last call: [op, args, raised, ret, provider, saves]
    committed,      \* history: the ids returned by add_texts calls and not
                    \* passed to delete since
    writers,        \* further instances on the same directory, each at a
                    \* point of its call: [pc, vectors, metadata, ret]
    db              \* the JSON record stores of one user: [enabled, user_id,
                    \* files]

vars == <<isOpen, embedding, vectors, metadata, vectors_file, metadata_file,
          last, committed, writers, db>>

---------------------------------------------------------------------------
(* Bounds *)

MaxLen == 2             \* most vectors / entries an instance is filled to
MaxTime == 2            \* the clock returns a value of 1..MaxTime
MaxBatch == MaxLen      \* most texts of one add_texts call
MaxIds == MaxLen        \* most ids of one delete call
MaxK == MaxLen + 1      \* largest k of a search
MaxApps == 2            \* most applications the applications file is filled to

TimeVals == 1..MaxTime

---------------------------------------------------------------------------
(* The embedding provider (OpenAIEmbeddings), a function of model and text *)

DefaultModel == "text-embedding-3-large"
Models == {DefaultModel}

\* a model of another dimensionality, for stores opened with embedding_model
SmallModel == "text-embedding-3-small"
EmbeddingModels == {DefaultModel, SmallModel}

Texts == {"a", "b"}

\* the dimensionality is fixed per model: 2 for DefaultModel, 1 for SmallModel
EmbedTable(model, text) ==
    IF model = SmallModel
    THEN CASE text = "a" -> <<1>>
           [] OTHER -> <<0 - 1>>
    ELSE CASE text = "a" -> <<1, 0>>
           [] text = "b" -> <<0, 1>>
           [] text = "c" -> <<2, 0>>
           [] text = "d" -> <<1, 1>>
           [] text = "z" -> <<0, 0>>
           [] OTHER -> <<0 - 1, 0>>

embed_documents(model, texts) == [i \in 1..Len(texts) |-> EmbedTable(model, texts[i])]

embed_query(model, text) == EmbedTable(model, text)

---------------------------------------------------------------------------
(* Files *)

Absent == [st |-> "absent", data |-> <<>>]
Corrupt == [st |-> "corrupt", data |-> <<>>]

\* pickle.dump / pickle.load of a list of lists of floats
PickleDump(vs) == [i \in 1..Len(vs) |-> <<"list", vs[i]>>]
PickleLoad(data) == [i \in 1..Len(data) |-> data[i][2]]

\* json.dump / json.load of a list of dicts: an object is its set of members
JsonDump(md) == [i \in 1..Len(md) |-> {<<k, md[i][k]>> : k \in DOMAIN md[i]}]
JsonLoad(data) ==
    [i \in 1..Len(data) |->
        [k \in {m[1] : m \in data[i]} |-> (CHOOSE m \in data[i] : m[1] = k)[2]]]

SaveOutcomes == {"ok", "fail_open", "fail_write"}

\* with open(path, 'w') as f: dump(...), inside try/except: the file after it.
\* "fail_open": open raised, the file is untouched; "fail_write": open
\* truncated the file and the dump raised part-way.
WriteFile(old, data, outcome) ==
    CASE outcome = "ok" -> [st |-> "ok", data |-> data]
      [] outcome = "fail_open" -> old
      [] OTHER -> Corrupt

\* readable = FALSE: open or read raised (permissions, I/O error)
LoadFails(file, readable) == file.st = "corrupt" \/ (file.st = "ok" /\ ~readable)

_load_vectors(file, readable) ==
    IF file.st # "absent"
    THEN IF ~LoadFails(file, readable) THEN PickleLoad(file.data) ELSE <<>>
    ELSE <<>>

_load_metadata(file, readable) ==
    IF file.st # "absent"
    THEN IF ~LoadFails(file, readable) THEN JsonLoad(file.data) ELSE <<>>
    ELSE <<>>

\* mutant: an artifact holding more vectors than the instance is kept
SaveVectors_KeepsLonger(file, vs, outcome) ==
    IF file.st = "ok" /\ Len(file.data) > Len(vs)
    THEN file
    ELSE WriteFile(file, PickleDump(vs), outcome)

_save_vectors(file, vs, outcome) == WriteFile(file, PickleDump(vs), outcome)

\* mutant: the metadata artifact is not rewritten
SaveMetadata_Skipped(file, md, outcome) == file

_save_metadata(file, md, outcome) == WriteFile(file, JsonDump(md), outcome)

---------------------------------------------------------------------------
(* Construction *)

\* provider: what the call did with the embedding provider: "unused" (not
\* called), "ok" (called, returned) or "raised" (called, raised)
\* saves: the artifacts the call saved, in the order of the saves
Result(op, args, raised, ret) ==
    [op |-> op, args |-> args, raised |-> raised, ret |-> ret,
     provider |-> "unused", saves |-> <<>>]

Saved(result, artifacts) == [result EXCEPT !.saves = artifacts]

Embedded(result, outcome) == [result EXCEPT !.provider = outcome]

\* The files of the JSON record stores (json_db.py, interview_db.py).  The
\* bytes of a file are [key, text]: key "missing" (no file), "plain" (the
\* text as written), or the user id the text was encrypted for; text is
\* <<"json", value>>, <<"empty", <<>>>> or <<"garbage", <<>>>>.
Users == {"u1", "u2"}
Paths == {"applications.json", "profile.json", "questions.json"}

\* a Python value read from or written to a file: a list of dicts
\* <<"list", seq>>, or a dict <<"dict", members>> (a set of <<key, value>>)
EmptyList == <<"list", <<>>>>
EmptyObject == <<"dict", {}>>

MissingFile == [key |-> "missing", text |-> <<"empty", <<>>>>]
EmptyFile == [key |-> "plain", text |-> <<"empty", <<>>>>]

\* json.dumps / json.loads of a list of dicts, or of a dict
JsonDumps(value) ==
    IF value[1] = "list"
    THEN <<"json", <<"array", JsonDump(value[2])>>>>
    ELSE <<"json", <<"object", value[2]>>>>

JsonLoads(text) ==
    IF text[2][1] = "array"
    THEN <<"list", JsonLoad(text[2][2])>>
    ELSE <<"dict", text[2][2]>>

\* storage.encryption: the bytes of a text encrypted for a user, and the
\* text back for that user only; decrypt_data raises on anything else
encrypt_data(text, user_id) == [key |-> user_id, text |-> text]
DecryptRaises(bytes, user_id) == bytes.key # user_id
decrypt_data(bytes, user_id) == bytes.text

\* _write_json: the bytes written for data
WrittenJson(data, enabled, user_id) ==
    IF enabled
    THEN encrypt_data(JsonDumps(data), user_id)
    ELSE [key |-> "plain", text |-> JsonDumps(data)]

\* the files right after JobSearchDB(...) and InterviewDB(...) on a new
\* directory: _init_file writes the default content of each
FreshDb(enabled, user_id) ==
    [enabled |-> enabled, user_id |-> user_id,
     files |-> [p \in Paths |->
                   WrittenJson(IF p = "profile.json" THEN EmptyObject ELSE EmptyList,
                               enabled, user_id)]]

\* the instances that share the directory with each other
Writers == {"A", "B"}
NoInstance == [pc |-> "closed", vectors |-> <<>>, metadata |-> <<>>, ret |-> <<>>]

Init ==
    /\ isOpen = TRUE
    /\ embedding = DefaultModel
    /\ vectors = <<>>
    /\ metadata = <<>>
    /\ vectors_file = Absent
    /\ metadata_file = Absent
    /\ last = Result("__init__", <<DefaultModel>>, FALSE, <<>>)
    /\ committed = {}
    /\ writers = [w \in Writers |-> NoInstance]
    /\ db = FreshDb(FALSE, "u1")

\* SimpleVectorStore(store_path, embedding_model): a new instance over the
\* directory; the instance before it, if any, is dropped.
Open(model, vreadable, mreadable) ==
    /\ isOpen' = TRUE
    /\ embedding' = model
    /\ vectors' = _load_vectors(vectors_file, vreadable)
    /\ metadata' = _load_metadata(metadata_file, mreadable)
    /\ UNCHANGED <<vectors_file, metadata_file, committed>>
    /\ last' = Result("__init__", <<model>>, FALSE, <<>>)

---------------------------------------------------------------------------
(* add_texts / add_documents *)

NoMeta == <<>>
UserMetas == {NoMeta, [source |-> "note"]}

\* caller metadata with the keys the store also sets: an id and a text of
\* the caller's, a timestamp of the caller's next to a key of its own
UserId == <<"user", 0, 0>>
ReservedMetas ==
    {NoMeta, [id |-> UserId], [text |-> "b"], [source |-> "note", timestamp |-> 0]}

SeqsUpTo(S, n) == UNION {[1..m -> S] : m \in 0..n}

\* dict.update
Update(base, other) ==
    [k \in DOMAIN base \cup DOMAIN other |->
        IF k \in DOMAIN other THEN other[k] ELSE base[k]]

\* f"doc_{len(self.vectors)}_{datetime.now().timestamp()}"
DocId(vs, t) == <<"doc", Len(vs), t>>

\* one entry of the loop: the metadata dict of text i (1-based here)
NewEntry(doc_id, text, stamp, metadatas, i) ==
    LET entry == [id |-> doc_id, text |-> text, timestamp |-> stamp]
    IN  IF metadatas # <<>> /\ i <= Len(metadatas)
        THEN Update(entry, metadatas[i])
        ELSE entry

\* mutant: each vector is inserted at the front of self.vectors
RECURSIVE AddLoop_VectorsInFront(_, _, _, _, _, _)
AddLoop_VectorsInFront(acc, texts, embeddings, metadatas, clk, i) ==
    IF i > Len(texts) \/ i > Len(embeddings)
    THEN acc
    ELSE LET doc_id == DocId(acc.vectors, clk[i][1])
         IN  AddLoop_VectorsInFront(
                 [vectors |-> <<embeddings[i]>> \o acc.vectors,
                  metadata |-> Append(acc.metadata,
                                      NewEntry(doc_id, texts[i], clk[i][2],
                                               metadatas, i)),
                  ids |-> Append(acc.ids, doc_id)],
                 texts, embeddings, metadatas, clk, i + 1)

\* mutant: each entry is inserted at the front of self.metadata
RECURSIVE AddLoop_EntriesInFront(_, _, _, _, _, _)
AddLoop_EntriesInFront(acc, texts, embeddings, metadatas, clk, i) ==
    IF i > Len(texts) \/ i > Len(embeddings)
    THEN acc
    ELSE LET doc_id == DocId(acc.vectors, clk[i][1])
         IN  AddLoop_EntriesInFront(
                 [vectors |-> Append(acc.vectors, embeddings[i]),
                  metadata |-> <<NewEntry(doc_id, texts[i], clk[i][2],
                                          metadatas, i)>> \o acc.metadata,
                  ids |-> Append(acc.ids, doc_id)],
                 texts, embeddings, metadatas, clk, i + 1)

\* the loop over zip(texts, embeddings), from entry i on; clk[i] is the pair
\* of clock readings of iteration i.  acc = [vectors, metadata, ids]
RECURSIVE AddLoop(_, _, _, _, _, _)
AddLoop(acc, texts, embeddings, metadatas, clk, i) ==
    IF i > Len(texts) \/ i > Len(embeddings)
    THEN acc
    ELSE LET doc_id == DocId(acc.vectors, clk[i][1])
         IN  AddLoop([vectors |-> Append(acc.vectors, embeddings[i]),
                      metadata |-> Append(acc.metadata,
                                          NewEntry(doc_id, texts[i], clk[i][2],
                                                   metadatas, i)),
                      ids |-> Append(acc.ids, doc_id)],
                     texts, embeddings, metadatas, clk, i + 1)

\* the process stops between _save_vectors and _save_metadata: the instance
\* is gone, the vectors artifact is written and the metadata artifact is not
Stopped(op, args, newvfile) ==
    /\ isOpen' = FALSE
    /\ vectors' = <<>>
    /\ metadata' = <<>>
    /\ vectors_file' = newvfile
    /\ UNCHANGED <<embedding, metadata_file>>
    /\ last' = Saved(Result("stopped", <<op>>, FALSE, <<>>), <<"vectors.pkl">>)

\* the two saves that end add_texts and delete, then the return
SaveBoth(op, args, provider, vs, md, ret, vout, mout, stop) ==
    IF stop
    THEN Stopped(op, args, _save_vectors(vectors_file, vs, vout))
    ELSE /\ vectors' = vs
         /\ metadata' = md
         /\ vectors_file' = _save_vectors(vectors_file, vs, vout)
         /\ metadata_file' = _save_metadata(metadata_file, md, mout)
         /\ UNCHANGED <<isOpen, embedding>>
         /\ last' = Saved(Embedded(Result(op, args, FALSE, ret), provider),
                          <<"vectors.pkl", "metadata.json">>)

Range(s) == {s[i] : i \in 1..Len(s)}

\* mutant: an error of the provider is caught and nothing is added
add_texts_CatchesProviderError(texts, metadatas, clk, embedOk, vout, mout, stop) ==
    IF texts = <<>>
    THEN /\ last' = Result("add_texts", <<texts, metadatas>>, FALSE, <<>>)
         /\ UNCHANGED <<isOpen, embedding, vectors, metadata,
                        vectors_file, metadata_file, committed>>
    ELSE IF ~embedOk
    THEN /\ last' = Embedded(Result("add_texts", <<texts, metadatas>>, FALSE, <<>>),
                             "raised")
         /\ UNCHANGED <<isOpen, embedding, vectors, metadata,
                        vectors_file, metadata_file, committed>>
    ELSE LET embeddings == embed_documents(embedding, texts)
             done == AddLoop([vectors |-> vectors, metadata |-> metadata,
                              ids |-> <<>>],
                             texts, embeddings, metadatas, clk, 1)
         IN  /\ SaveBoth("add_texts", <<texts, metadatas>>, "ok",
                         done.vectors, done.metadata, done.ids,
                         vout, mout, stop)
             /\ committed' = IF stop THEN committed
                             ELSE committed \cup Range(done.ids)

\* mutant: no early return on empty texts
add_texts_NoEmptyReturn(texts, metadatas, clk, embedOk, vout, mout, stop) ==
    IF ~embedOk
    THEN /\ last' = Embedded(Result("add_texts", <<texts, metadatas>>, TRUE, <<>>),
                             "raised")
         /\ UNCHANGED <<isOpen, embedding, vectors, metadata,
                        vectors_file, metadata_file, committed>>
    ELSE LET embeddings == embed_documents(embedding, texts)
             done == AddLoop([vectors |-> vectors, metadata |-> metadata,
                              ids |-> <<>>],
                             texts, embeddings, metadatas, clk, 1)
         IN  /\ SaveBoth("add_texts", <<texts, metadatas>>, "ok",
                         done.vectors, done.metadata, done.ids,
                         vout, mout, stop)
             /\ committed' = IF stop THEN committed
                             ELSE committed \cup Range(done.ids)

add_texts(texts, metadatas, clk, embedOk, vout, mout, stop) ==
    IF texts = <<>>
    THEN /\ last' = Result("add_texts", <<texts, metadatas>>, FALSE, <<>>)
         /\ UNCHANGED <<isOpen, embedding, vectors, metadata,
                        vectors_file, metadata_file, committed>>
    ELSE IF ~embedOk
    THEN /\ last' = Embedded(Result("add_texts", <<texts, metadatas>>, TRUE, <<>>),
                             "raised")
         /\ UNCHANGED <<isOpen, embedding, vectors, metadata,
                        vectors_file, metadata_file, committed>>
    ELSE LET embeddings == embed_documents(embedding, texts)
             done == AddLoop([vectors |-> vectors, metadata |-> metadata,
                              ids |-> <<>>],
                             texts, embeddings, metadatas, clk, 1)
         IN  /\ SaveBoth("add_texts", <<texts, metadatas>>, "ok",
                         done.vectors, done.metadata, done.ids,
                         vout, mout, stop)
             /\ committed' = IF stop THEN committed
                             ELSE committed \cup Range(done.ids)

\* a Document is [page_content, metadata]
add_documents(documents, clk, embedOk, vout, mout, stop) ==
    LET texts == [i \in 1..Len(documents) |-> documents[i].page_content]
        metadatas == [i \in 1..Len(documents) |-> documents[i].metadata]
    IN  add_texts(texts, metadatas, clk, embedOk, vout, mout, stop)

---------------------------------------------------------------------------
(* delete *)

\* meta.get("id") == doc_id
HasId(meta, doc_id) == "id" \in DOMAIN meta /\ meta["id"] = doc_id

\* the inner loop with its break: the first position (from 0) whose entry
\* has the id, appended to the list; nothing appended when there is none
FindFirst(md, doc_id) ==
    LET hits == {i \in 1..Len(md) : HasId(md[i], doc_id)}
    IN  IF hits = {}
        THEN <<>>
        ELSE <<(CHOOSE i \in hits : \A j \in hits : i <= j) - 1>>

RECURSIVE IndicesToRemove(_, _, _)
IndicesToRemove(md, ids, n) ==
    IF n > Len(ids)
    THEN <<>>
    ELSE FindFirst(md, ids[n]) \o IndicesToRemove(md, ids, n + 1)

Max(S) == CHOOSE x \in S : \A y \in S : y <= x

RemoveAt(s, i) == SubSeq(s, 1, i - 1) \o SubSeq(s, i + 1, Len(s))

\* sorted(indices, reverse=True)
RECURSIVE SortedReverse(_)
SortedReverse(s) ==
    IF s = <<>>
    THEN <<>>
    ELSE LET m == Max({s[i] : i \in 1..Len(s)})
             at == CHOOSE i \in 1..Len(s) : s[i] = m
         IN  <<m>> \o SortedReverse(RemoveAt(s, at))

\* del lst[idx] under the guard idx < len(lst)
DelGuarded(lst, idx) == IF idx < Len(lst) THEN RemoveAt(lst, idx + 1) ELSE lst

\* mutant: the loop deletes the vector at idx and the first entry
RECURSIVE RemoveLoop_FirstEntry(_, _, _)
RemoveLoop_FirstEntry(acc, order, n) ==
    IF n > Len(order)
    THEN acc
    ELSE RemoveLoop_FirstEntry([vectors |-> DelGuarded(acc.vectors, order[n]),
                                metadata |-> DelGuarded(acc.metadata, 0)],
                               order, n + 1)

\* mutant: the loop deletes from self.vectors only
RECURSIVE RemoveLoop_VectorsOnly(_, _, _)
RemoveLoop_VectorsOnly(acc, order, n) ==
    IF n > Len(order)
    THEN acc
    ELSE RemoveLoop_VectorsOnly([vectors |-> DelGuarded(acc.vectors, order[n]),
                                 metadata |-> acc.metadata],
                                order, n + 1)

\* the removal loop over the sorted indices; acc = [vectors, metadata]
RECURSIVE RemoveLoop(_, _, _)
RemoveLoop(acc, order, n) ==
    IF n > Len(order)
    THEN acc
    ELSE RemoveLoop([vectors |-> DelGuarded(acc.vectors, order[n]),
                     metadata |-> DelGuarded(acc.metadata, order[n])],
                    order, n + 1)

\* mutant: no early return on empty ids
delete_NoEmptyReturn(ids, vout, mout, stop) ==
    LET indices_to_remove == IndicesToRemove(metadata, ids, 1)
        done == RemoveLoop([vectors |-> vectors, metadata |-> metadata],
                           SortedReverse(indices_to_remove), 1)
    IN  /\ SaveBoth("delete", <<ids>>, "unused",
                    done.vectors, done.metadata, <<>>, vout, mout, stop)
        /\ committed' = committed \ Range(ids)

delete(ids, vout, mout, stop) ==
    IF ids = <<>>
    THEN /\ last' = Result("delete", <<ids>>, FALSE, <<>>)
         /\ UNCHANGED <<isOpen, embedding, vectors, metadata,
                        vectors_file, metadata_file, committed>>
    ELSE LET indices_to_remove == IndicesToRemove(metadata, ids, 1)
             done == RemoveLoop([vectors |-> vectors, metadata |-> metadata],
                                SortedReverse(indices_to_remove), 1)
         IN  /\ SaveBoth("delete", <<ids>>, "unused",
                         done.vectors, done.metadata, <<>>, vout, mout, stop)
             /\ committed' = committed \ Range(ids)

---------------------------------------------------------------------------
(* get_collection_stats *)

get_collection_stats ==
    [document_count |-> Len(metadata), vector_count |-> Len(vectors),
     status |-> "ready"]

---------------------------------------------------------------------------
(* similarity search *)

RECURSIVE Dot(_, _, _)
Dot(a, b, i) == IF i > Len(a) THEN 0 ELSE a[i] * b[i] + Dot(a, b, i + 1)

Sign(x) == IF x > 0 THEN 1 ELSE IF x < 0 THEN 0 - 1 ELSE 0

\* every product of two squared norms of EmbedTable divides it
ScoreScale == 4 * 4

\* A cosine c is kept as the integer sign(c) * c^2 * ScoreScale, which is
\* exact for the vectors of EmbedTable and orders as c does.
_cosine_similarity(vec1, vec2) ==
    LET dot_product == Dot(vec1, vec2, 1)
        norm1sq == Dot(vec1, vec1, 1)
        norm2sq == Dot(vec2, vec2, 1)
    IN  IF norm1sq = 0 \/ norm2sq = 0
        THEN 0
        ELSE (Sign(dot_product) * dot_product * dot_product * ScoreScale)
                 \div (norm1sq * norm2sq)

\* mutant: a dot product that raises only when the first array is longer
DotRaises_FirstLonger(vec1, vec2) == Len(vec1) > Len(vec2)

\* np.dot raises on arrays of different lengths
DotRaises(vec1, vec2) == Len(vec1) # Len(vec2)

\* [(i, similarity)] over enumerate(self.vectors), i from 0
Similarities(vs, query_embedding) ==
    [i \in 1..Len(vs) |-> <<i - 1, _cosine_similarity(query_embedding, vs[i])>>]

Min(S) == CHOOSE x \in S : \A y \in S : x <= y

\* mutant: the sort without reverse=True
RECURSIVE SortBySimilarity_Ascending(_)
SortBySimilarity_Ascending(s) ==
    IF s = <<>>
    THEN <<>>
    ELSE LET m == Min({s[i][2] : i \in 1..Len(s)})
             at == CHOOSE i \in 1..Len(s) :
                       /\ s[i][2] = m
                       /\ \A j \in 1..Len(s) : s[j][2] = m => i <= j
         IN  <<s[at]>> \o SortBySimilarity_Ascending(RemoveAt(s, at))

\* mutant: a descending sort that puts the later of two equal scores first
RECURSIVE SortBySimilarity_TiesLast(_)
SortBySimilarity_TiesLast(s) ==
    IF s = <<>>
    THEN <<>>
    ELSE LET m == Max({s[i][2] : i \in 1..Len(s)})
             at == CHOOSE i \in 1..Len(s) :
                       /\ s[i][2] = m
                       /\ \A j \in 1..Len(s) : s[j][2] = m => j <= i
         IN  <<s[at]>> \o SortBySimilarity_TiesLast(RemoveAt(s, at))

\* list.sort(key=lambda x: x[1], reverse=True): descending, and stable
RECURSIVE SortBySimilarity(_)
SortBySimilarity(s) ==
    IF s = <<>>
    THEN <<>>
    ELSE LET m == Max({s[i][2] : i \in 1..Len(s)})
             at == CHOOSE i \in 1..Len(s) :
                       /\ s[i][2] = m
                       /\ \A j \in 1..Len(s) : s[j][2] = m => i <= j
         IN  <<s[at]>> \o SortBySimilarity(RemoveAt(s, at))

\* mutant: the slice is not taken
Take_All(s, k) == s

\* lst[:k] for k >= 0
Take(s, k) == SubSeq(s, 1, IF k < Len(s) THEN k ELSE Len(s))

\* mutant: the timestamp is not popped
ToDocument_KeepsTimestamp(meta) ==
    [page_content |-> IF "text" \in DOMAIN meta THEN meta["text"] ELSE "",
     metadata |-> [k \in DOMAIN meta \ {"text", "id"} |-> meta[k]]]

\* meta.copy(), the three pops, Document(page_content=text, metadata=meta)
ToDocument(meta) ==
    [page_content |-> IF "text" \in DOMAIN meta THEN meta["text"] ELSE "",
     metadata |-> [k \in DOMAIN meta \ {"text", "id", "timestamp"} |-> meta[k]]]

\* mutant: the results are collected in reverse
RECURSIVE DocResults_Reversed(_, _, _)
DocResults_Reversed(md, top, n) ==
    IF n > Len(top)
    THEN <<>>
    ELSE DocResults_Reversed(md, top, n + 1)
         \o (IF top[n][1] < Len(md)
             THEN <<ToDocument(md[top[n][1] + 1])>>
             ELSE <<>>)

\* the result loop of similarity_search over similarities[:k], skipping
\* idx >= len(self.metadata)
RECURSIVE DocResults(_, _, _)
DocResults(md, top, n) ==
    IF n > Len(top)
    THEN <<>>
    ELSE (IF top[n][1] < Len(md)
          THEN <<ToDocument(md[top[n][1] + 1])>>
          ELSE <<>>)
         \o DocResults(md, top, n + 1)

\* the result loop of similarity_search_with_score: (doc, score) pairs
RECURSIVE ScoredResults(_, _, _)
ScoredResults(md, top, n) ==
    IF n > Len(top)
    THEN <<>>
    ELSE (IF top[n][1] < Len(md)
          THEN <<<<ToDocument(md[top[n][1] + 1]), top[n][2]>>>>
          ELSE <<>>)
         \o ScoredResults(md, top, n + 1)

\* mutant: the query is embedded before the collection is looked at
similarity_search_EmbedsFirst(query, k, embedOk) ==
    /\ UNCHANGED <<isOpen, embedding, vectors, metadata,
                   vectors_file, metadata_file, committed>>
    /\ IF ~embedOk
       THEN last' = Embedded(Result("similarity_search", <<query, k>>, TRUE, <<>>),
                             "raised")
       ELSE last' = Embedded(Result("similarity_search", <<query, k>>, FALSE,
                                    DocResults(metadata,
                                               Take(SortBySimilarity(
                                                        Similarities(vectors,
                                                            embed_query(embedding, query))),
                                                    k),
                                               1)),
                             "ok")

similarity_search(query, k, embedOk) ==
    /\ UNCHANGED <<isOpen, embedding, vectors, metadata,
                   vectors_file, metadata_file, committed>>
    /\ IF vectors = <<>>
       THEN last' = Result("similarity_search", <<query, k>>, FALSE, <<>>)
       ELSE IF ~embedOk
       THEN last' = Embedded(Result("similarity_search", <<query, k>>, TRUE, <<>>),
                             "raised")
       ELSE LET query_embedding == embed_query(embedding, query)
                similarities == Similarities(vectors, query_embedding)
            IN  IF \E i \in 1..Len(vectors) : DotRaises(query_embedding, vectors[i])
                THEN last' = Embedded(Result("similarity_search", <<query, k>>, TRUE, <<>>),
                                      "ok")
                ELSE last' = Embedded(Result("similarity_search", <<query, k>>, FALSE,
                                    DocResults(metadata,
                                               Take(SortBySimilarity(similarities), k),
                                               1)),
                                      "ok")

similarity_search_with_score(query, k, embedOk) ==
    /\ UNCHANGED <<isOpen, embedding, vectors, metadata,
                   vectors_file, metadata_file, committed>>
    /\ IF vectors = <<>>
       THEN last' = Result("similarity_search_with_score", <<query, k>>, FALSE, <<>>)
       ELSE IF ~embedOk
       THEN last' = Embedded(Result("similarity_search_with_score", <<query, k>>, TRUE, <<>>),
                             "raised")
       ELSE LET query_embedding == embed_query(embedding, query)
                similarities == Similarities(vectors, query_embedding)
            IN  IF \E i \in 1..Len(vectors) : DotRaises(query_embedding, vectors[i])
                THEN last' = Embedded(Result("similarity_search_with_score", <<query, k>>, TRUE, <<>>),
                                      "ok")
                ELSE last' = Embedded(Result("similarity_search_with_score", <<query, k>>, FALSE,
                                    ScoredResults(metadata,
                                                  Take(SortBySimilarity(similarities), k),
                                                  1)),
                                      "ok")

---------------------------------------------------------------------------
(* The JSON record stores *)

\* json.load of the file opened as text: raises unless the file holds JSON
PlainLoadRaises(bytes) == bytes.key # "plain" \/ bytes.text[1] # "json"

\* JobSearchDB._read_json: [value, printed]; printed: an error was printed
\* mutant: no second attempt when decrypting fails
JobSearchDB_read_json_NoFallback(bytes, filepath, enabled, user_id) ==
    LET default == IF filepath # "profile.json" THEN EmptyList ELSE EmptyObject
        failed == [value |-> default, printed |-> TRUE]
    IN  IF bytes.key = "missing" THEN failed
        ELSE IF enabled
        THEN IF bytes.text[1] = "empty"
             THEN [value |-> default, printed |-> FALSE]
             ELSE IF DecryptRaises(bytes, user_id) THEN failed
             ELSE IF decrypt_data(bytes, user_id)[1] # "json" THEN failed
             ELSE [value |-> JsonLoads(decrypt_data(bytes, user_id)),
                   printed |-> FALSE]
        ELSE IF PlainLoadRaises(bytes) THEN failed
        ELSE [value |-> JsonLoads(bytes.text), printed |-> FALSE]

JobSearchDB_read_json(bytes, filepath, enabled, user_id) ==
    LET default == IF filepath # "profile.json" THEN EmptyList ELSE EmptyObject
        failed == [value |-> default, printed |-> TRUE]
    IN  IF bytes.key = "missing"
        THEN failed                         \* FileNotFoundError
        ELSE IF enabled
        THEN IF bytes.text[1] = "empty"
             THEN [value |-> default, printed |-> FALSE]
             ELSE IF DecryptRaises(bytes, user_id)
             THEN \* except Exception: the file once more, as plain JSON
                  IF PlainLoadRaises(bytes)
                  THEN failed
                  ELSE [value |-> JsonLoads(bytes.text), printed |-> FALSE]
             ELSE IF decrypt_data(bytes, user_id)[1] # "json"
             THEN failed                    \* json.JSONDecodeError
             ELSE [value |-> JsonLoads(decrypt_data(bytes, user_id)),
                   printed |-> FALSE]
        ELSE IF PlainLoadRaises(bytes)
        THEN failed
        ELSE [value |-> JsonLoads(bytes.text), printed |-> FALSE]

\* InterviewDB._read_json: one except clause, the default is always []
InterviewDB_read_json(bytes, enabled, user_id) ==
    LET failed == [value |-> EmptyList, printed |-> TRUE]
        again == IF PlainLoadRaises(bytes)
                 THEN failed
                 ELSE [value |-> JsonLoads(bytes.text), printed |-> FALSE]
    IN  IF bytes.key = "missing"
        THEN failed
        ELSE IF enabled
        THEN IF bytes.text[1] = "empty"
             THEN [value |-> EmptyList, printed |-> FALSE]
             ELSE IF DecryptRaises(bytes, user_id)
             THEN again
             ELSE IF decrypt_data(bytes, user_id)[1] # "json"
             THEN again
             ELSE [value |-> JsonLoads(decrypt_data(bytes, user_id)),
                   printed |-> FALSE]
        ELSE again

\* a call of _read_json on one of the store's files
JobSearchDB_read(filepath) ==
    /\ last' = Result("JobSearchDB._read_json", <<filepath>>, FALSE,
                      JobSearchDB_read_json(db.files[filepath], filepath,
                                            db.enabled, db.user_id))
    /\ UNCHANGED <<isOpen, embedding, vectors, metadata, vectors_file,
                   metadata_file, committed, writers, db>>

InterviewDB_read(filepath) ==
    /\ last' = Result("InterviewDB._read_json", <<filepath>>, FALSE,
                      InterviewDB_read_json(db.files[filepath],
                                            db.enabled, db.user_id))
    /\ UNCHANGED <<isOpen, embedding, vectors, metadata, vectors_file,
                   metadata_file, committed, writers, db>>

\* JobSearchDB._write_json: the file holds the dump, encrypted when enabled
JobSearchDB_write(filepath, data) ==
    /\ db' = [db EXCEPT !.files[filepath] =
                  WrittenJson(data, db.enabled, db.user_id)]
    /\ last' = Result("JobSearchDB._write_json", <<filepath>>, FALSE, <<>>)
    /\ UNCHANGED <<isOpen, embedding, vectors, metadata, vectors_file,
                   metadata_file, committed, writers>>

\* what the files of the record stores hold in the states explored: lists
\* of one record, a profile, the defaults
OneRecord == [id |-> "a1", company |-> "Acme", role |-> "dev",
              status |-> "applied"]
JsonValues == {EmptyList, EmptyObject, <<"list", <<OneRecord>>>>,
               <<"dict", {<<"name", "n">>}>>}
ValuesOf(filepath) ==
    IF filepath = "profile.json"
    THEN {v \in JsonValues : v[1] = "dict"}
    ELSE {v \in JsonValues : v[1] = "list"}
Garbage == <<"garbage", <<>>>>
FileContents(filepath) ==
    {MissingFile, EmptyFile, [key |-> "plain", text |-> Garbage]}
    \cup {[key |-> u, text |-> Garbage] : u \in Users}
    \cup {WrittenJson(v, e, u) :
             v \in ValuesOf(filepath), e \in BOOLEAN, u \in Users}

---------------------------------------------------------------------------
(* JobSearchDB: the applications.  An Application is a record of its id,   *)
(* company, role and status; its dates, notes and timeline are left out.   *)

AppIds == {"a1", "a2"}
Companies == {"Acme", "acme"}
Roles == {"dev"}
Statuses == {"applied", "rejected"}
Applications == [id : AppIds, company : Companies, role : Roles,
                 status : Statuses]
ClosedStatuses == {"rejected", "withdrawn", "accepted"}

\* str.lower
Lower(str) == IF str = "Acme" THEN "acme" ELSE str

\* Application.from_dict / to_dict / update_status
from_dict(app_dict) ==
    [id |-> app_dict["id"], company |-> app_dict["company"],
     role |-> app_dict["role"], status |-> app_dict["status"]]
to_dict(app) ==
    [k \in {"id", "company", "role", "status"} |-> app[k]]
Application_update_status(app, new_status) ==
    [app EXCEPT !.status = new_status]

\* for key, value in updates.items(): if hasattr(app, key): setattr(...)
SetAttrs(app, updates) ==
    [k \in DOMAIN app |-> IF k \in DOMAIN updates THEN updates[k] ELSE app[k]]

\* the applications as the method reads them
ReadApplications ==
    JobSearchDB_read_json(db.files["applications.json"], "applications.json",
                          db.enabled, db.user_id).value[2]

WriteApplications(applications) ==
    db' = [db EXCEPT !.files["applications.json"] =
               WrittenJson(<<"list", applications>>, db.enabled, db.user_id)]

\* the index of the first application of that id, 0 when there is none
FirstWithId(applications, app_id) ==
    IF \E i \in 1..Len(applications) : applications[i]["id"] = app_id
    THEN CHOOSE i \in 1..Len(applications) :
             /\ applications[i]["id"] = app_id
             /\ \A j \in 1..(i - 1) : applications[j]["id"] # app_id
    ELSE 0

\* the duplicate check of add_application
IsDuplicate(existing, app) ==
    /\ Lower(existing["company"]) = Lower(app.company)
    /\ Lower(existing["role"]) = Lower(app.role)
    /\ existing["status"] \notin ClosedStatuses

add_application(app) ==
    LET applications == ReadApplications
    IN  /\ IF \E i \in 1..Len(applications) : IsDuplicate(applications[i], app)
           THEN /\ last' = Result("add_application", <<app>>, TRUE, <<>>)
                /\ UNCHANGED db
           ELSE /\ WriteApplications(Append(applications, to_dict(app)))
                /\ last' = Result("add_application", <<app>>, FALSE, app.id)
        /\ UNCHANGED <<isOpen, embedding, vectors, metadata, vectors_file,
                       metadata_file, committed, writers>>

update_application(app_id, updates) ==
    LET applications == ReadApplications
        i == FirstWithId(applications, app_id)
    IN  /\ IF i # 0
           THEN /\ WriteApplications(
                       [applications EXCEPT
                           ![i] = to_dict(SetAttrs(from_dict(applications[i]),
                                                   updates))])
                /\ last' = Result("update_application", <<app_id, updates>>,
                                  FALSE, TRUE)
           ELSE /\ last' = Result("update_application", <<app_id, updates>>,
                                  FALSE, FALSE)
                /\ UNCHANGED db
        /\ UNCHANGED <<isOpen, embedding, vectors, metadata, vectors_file,
                       metadata_file, committed, writers>>

update_status(app_id, new_status) ==
    LET applications == ReadApplications
        i == FirstWithId(applications, app_id)
    IN  /\ IF i # 0
           THEN /\ WriteApplications(
                       [applications EXCEPT
                           ![i] = to_dict(Application_update_status(
                                              from_dict(applications[i]),
                                              new_status))])
                /\ last' = Result("update_status", <<app_id, new_status>>,
                                  FALSE, TRUE)
           ELSE /\ last' = Result("update_status", <<app_id, new_status>>,
                                  FALSE, FALSE)
                /\ UNCHANGED db
        /\ UNCHANGED <<isOpen, embedding, vectors, metadata, vectors_file,
                       metadata_file, committed, writers>>

delete_application(app_id) ==
    LET applications == ReadApplications
        kept == SelectSeq(applications, LAMBDA a : a["id"] # app_id)
    IN  /\ IF Len(kept) < Len(applications)
           THEN /\ WriteApplications(kept)
                /\ last' = Result("delete_application", <<app_id>>, FALSE, TRUE)
           ELSE /\ last' = Result("delete_application", <<app_id>>, FALSE, FALSE)
                /\ UNCHANGED db
        /\ UNCHANGED <<isOpen, embedding, vectors, metadata, vectors_file,
                       metadata_file, committed, writers>>

---------------------------------------------------------------------------
(* Several instances on one directory.  Nothing locks the directory, so a   *)
(* call of one instance can run between the two saves of another: a call is *)
(* two steps, up to and including _save_vectors, then _save_metadata and    *)
(* the return.                                                              *)

store_vars == <<isOpen, embedding, vectors, metadata, last, committed>>

\* SimpleVectorStore(store_path) by instance w
WriterOpen(w) ==
    /\ writers[w].pc \in {"closed", "idle"}
    /\ writers' = [writers EXCEPT ![w] =
                       [pc |-> "idle",
                        vectors |-> _load_vectors(vectors_file, TRUE),
                        metadata |-> _load_metadata(metadata_file, TRUE),
                        ret |-> <<>>]]
    /\ UNCHANGED <<vectors_file, metadata_file>>
    /\ UNCHANGED <<store_vars, db>>

\* add_texts(texts) of instance w up to and including _save_vectors
WriterAddTexts(w, texts, clk) ==
    /\ writers[w].pc = "idle"
    /\ texts # <<>>
    /\ LET done == AddLoop([vectors |-> writers[w].vectors,
                            metadata |-> writers[w].metadata, ids |-> <<>>],
                           texts, embed_documents(DefaultModel, texts),
                           <<>>, clk, 1)
       IN  /\ writers' = [writers EXCEPT ![w] =
                              [pc |-> "saving_metadata", vectors |-> done.vectors,
                               metadata |-> done.metadata, ret |-> done.ids]]
           /\ vectors_file' = _save_vectors(vectors_file, done.vectors, "ok")
    /\ UNCHANGED metadata_file
    /\ UNCHANGED <<store_vars, db>>

\* delete(ids) of instance w up to and including _save_vectors
WriterDelete(w, ids) ==
    /\ writers[w].pc = "idle"
    /\ ids # <<>>
    /\ LET done == RemoveLoop([vectors |-> writers[w].vectors,
                               metadata |-> writers[w].metadata],
                              SortedReverse(IndicesToRemove(writers[w].metadata,
                                                            ids, 1)),
                              1)
       IN  /\ writers' = [writers EXCEPT ![w] =
                              [pc |-> "saving_metadata", vectors |-> done.vectors,
                               metadata |-> done.metadata, ret |-> <<>>]]
           /\ vectors_file' = _save_vectors(vectors_file, done.vectors, "ok")
    /\ UNCHANGED metadata_file
    /\ UNCHANGED <<store_vars, db>>

\* _save_metadata and the return of the call instance w is in
WriterSaveMetadata(w) ==
    /\ writers[w].pc = "saving_metadata"
    /\ metadata_file' = _save_metadata(metadata_file, writers[w].metadata, "ok")
    /\ writers' = [writers EXCEPT ![w].pc = "idle"]
    /\ UNCHANGED vectors_file
    /\ UNCHANGED <<store_vars, db>>

---------------------------------------------------------------------------
(* The specifications *)

\* An environment names the inputs the callers draw from and what the file
\* system, the embedding provider and the process may do:
\*   texts, metas, times   texts, caller metadata dicts, clock readings
\*   queries               the texts searched for
\*   embedOks              FALSE: the embedding provider raises
\*   outs                  outcomes of a save (SaveOutcomes)
\*   stops                 TRUE: the process stops between the two saves
\*   readable              FALSE: reading an artifact raises
\*   cap                   most entries the instance is filled to

\* no I/O failure; every input
Reliable ==
    [texts |-> Texts, metas |-> UserMetas, times |-> TimeVals, queries |-> Texts,
     embedOks |-> BOOLEAN, outs |-> {"ok"}, stops |-> {FALSE},
     readable |-> {TRUE}, cap |-> MaxLen]

\* artifacts may be unreadable when a store is opened; saves succeed
ReadFaulty ==
    [texts |-> Texts, metas |-> {}, times |-> {1}, queries |-> Texts,
     embedOks |-> {TRUE}, outs |-> {"ok"}, stops |-> {FALSE},
     readable |-> BOOLEAN, cap |-> MaxLen]

\* every I/O failure; texts only
Faulty ==
    [texts |-> Texts, metas |-> {}, times |-> {1}, queries |-> Texts,
     embedOks |-> {TRUE}, outs |-> SaveOutcomes, stops |-> BOOLEAN,
     readable |-> BOOLEAN, cap |-> MaxLen]

\* one instance from construction on: saves may fail, the process goes on
Session == [Faulty EXCEPT !.stops = {FALSE}]

\* vectors with equal, opposite and intermediate cosines, one entry more
Ranking ==
    [texts |-> {"a", "b", "c", "d", "z"}, metas |-> {}, times |-> {1},
     queries |-> {"a", "d"},
     embedOks |-> {TRUE}, outs |-> {"ok"}, stops |-> {FALSE},
     readable |-> {TRUE}, cap |-> MaxLen + 1]

\* a provider that may raise; stores opened with either model
Provider ==
    [texts |-> Texts, metas |-> {}, times |-> {1}, queries |-> Texts,
     embedOks |-> BOOLEAN, outs |-> {"ok"}, stops |-> {FALSE},
     readable |-> {TRUE}, cap |-> MaxLen]

\* callers whose metadata carries the keys the store sets
Caller ==
    [texts |-> Texts, metas |-> ReservedMetas, times |-> {1}, queries |-> {"a"},
     embedOks |-> {TRUE}, outs |-> {"ok"}, stops |-> {FALSE},
     readable |-> {TRUE}, cap |-> MaxLen]

\* instances sharing a directory: one text, one clock reading
Shared ==
    [texts |-> {"a"}, metas |-> {}, times |-> {1}, queries |-> {"a"},
     embedOks |-> {TRUE}, outs |-> {"ok"}, stops |-> {FALSE},
     readable |-> {TRUE}, cap |-> MaxLen]

\* the ids add_texts can return; those not in the collection are unknown ids
IdUniverse(e) == {<<"doc", n, t>> : n \in 0..(e.cap - 1), t \in e.times}

Room(e, n) == Len(vectors) + n <= e.cap /\ Len(metadata) + n <= e.cap

OpenStep(e) ==
    /\ \E model \in Models, vreadable \in e.readable, mreadable \in e.readable :
           Open(model, vreadable, mreadable)
    /\ UNCHANGED <<writers, db>>

\* SimpleVectorStore(store_path, embedding_model=model)
OpenModelStep(e) ==
    /\ \E model \in EmbeddingModels, vreadable \in e.readable,
          mreadable \in e.readable :
           Open(model, vreadable, mreadable)
    /\ UNCHANGED <<writers, db>>

AddTextsStep(e) ==
    /\ isOpen
    /\ \E texts \in SeqsUpTo(e.texts, MaxBatch) :
        /\ Room(e, Len(texts))
        /\ \E metadatas \in SeqsUpTo(e.metas, Len(texts)),
              clk \in [1..Len(texts) -> e.times \X e.times],
              embedOk \in e.embedOks, vout \in e.outs, mout \in e.outs,
              stop \in e.stops :
               add_texts(texts, metadatas, clk, embedOk, vout, mout, stop)
    /\ UNCHANGED <<writers, db>>

AddDocumentsStep(e) ==
    /\ isOpen
    /\ \E documents \in SeqsUpTo([page_content : e.texts, metadata : e.metas],
                                 MaxBatch) :
        /\ Room(e, Len(documents))
        /\ \E clk \in [1..Len(documents) -> e.times \X e.times],
              embedOk \in e.embedOks, vout \in e.outs, mout \in e.outs,
              stop \in e.stops :
               add_documents(documents, clk, embedOk, vout, mout, stop)
    /\ UNCHANGED <<writers, db>>

DeleteStep(e) ==
    /\ isOpen
    /\ \E ids \in SeqsUpTo(IdUniverse(e), MaxIds),
          vout \in e.outs, mout \in e.outs, stop \in e.stops :
           delete(ids, vout, mout, stop)
    /\ UNCHANGED <<writers, db>>

SearchStep(e) ==
    /\ isOpen
    /\ \E query \in e.queries, k \in 1..MaxK, embedOk \in e.embedOks :
           similarity_search(query, k, embedOk)
    /\ UNCHANGED <<writers, db>>

SearchWithScoreStep(e) ==
    /\ isOpen
    /\ \E query \in e.queries, k \in 1..MaxK, embedOk \in e.embedOks :
           similarity_search_with_score(query, k, embedOk)
    /\ UNCHANGED <<writers, db>>

\* construction and the mutating operations, no I/O failure
Next ==
    \/ OpenStep(Reliable)
    \/ AddTextsStep(Reliable)
    \/ AddDocumentsStep(Reliable)
    \/ DeleteStep(Reliable)

Spec == Init /\ [][Next]_vars

\* the mutating operations and construction under every I/O failure
NextFaults ==
    \/ OpenStep(Faulty)
    \/ AddTextsStep(Faulty)
    \/ DeleteStep(Faulty)

SpecFaults == Init /\ [][NextFaults]_vars

\* the mutating operations and construction when reads may fail
NextReadFaults ==
    \/ OpenStep(ReadFaulty)
    \/ AddTextsStep(ReadFaulty)
    \/ DeleteStep(ReadFaulty)

SpecReadFaults == Init /\ [][NextReadFaults]_vars

\* one newly created store, never reopened
NextSession ==
    \/ AddTextsStep(Session)
    \/ AddDocumentsStep(Session)
    \/ DeleteStep(Session)

SpecSession == Init /\ [][NextSession]_vars

\* searches over collections of up to MaxLen + 1 entries
NextSearch ==
    \/ AddTextsStep(Ranking)
    \/ SearchStep(Ranking)
    \/ SearchWithScoreStep(Ranking)

SpecSearch == Init /\ [][NextSearch]_vars

\* every operation with a provider that may raise, on stores opened with
\* either model
NextProvider ==
    \/ OpenModelStep(Provider)
    \/ AddTextsStep(Provider)
    \/ DeleteStep(Provider)
    \/ SearchStep(Provider)
    \/ SearchWithScoreStep(Provider)

SpecProvider == Init /\ [][NextProvider]_vars

\* adds with caller metadata of any keys, deletes and searches
NextCaller ==
    \/ AddTextsStep(Caller)
    \/ DeleteStep(Caller)
    \/ SearchStep(Caller)
    \/ SearchWithScoreStep(Caller)

SpecCaller == Init /\ [][NextCaller]_vars

WriterOpenStep(e) == \E w \in Writers : WriterOpen(w)

WriterAddTextsStep(e) ==
    \E w \in Writers, texts \in SeqsUpTo(e.texts, MaxBatch) :
        /\ Len(writers[w].vectors) + Len(texts) <= e.cap
        /\ Len(writers[w].metadata) + Len(texts) <= e.cap
        /\ \E clk \in [1..Len(texts) -> e.times \X e.times] :
               WriterAddTexts(w, texts, clk)

WriterDeleteStep(e) ==
    \E w \in Writers, ids \in SeqsUpTo(IdUniverse(e), MaxIds) : WriterDelete(w, ids)

WriterSaveMetadataStep(e) == \E w \in Writers : WriterSaveMetadata(w)

\* two instances on one directory, their calls interleaved at the saves
NextWriters ==
    \/ WriterOpenStep(Shared)
    \/ WriterAddTextsStep(Shared)
    \/ WriterDeleteStep(Shared)
    \/ WriterSaveMetadataStep(Shared)

SpecWriters == Init /\ [][NextWriters]_vars

\* The record stores over a data directory in any condition: written with
\* or without encryption, by this user or another, damaged or removed.
InitJson ==
    /\ isOpen = TRUE
    /\ embedding = DefaultModel
    /\ vectors = <<>>
    /\ metadata = <<>>
    /\ vectors_file = Absent
    /\ metadata_file = Absent
    /\ last = Result("__init__", <<DefaultModel>>, FALSE, <<>>)
    /\ committed = {}
    /\ writers = [w \in Writers |-> NoInstance]
    /\ \E e \in BOOLEAN, u \in Users :
          \E fs \in [Paths -> UNION {FileContents(p) : p \in Paths}] :
              /\ \A p \in Paths : fs[p] \in FileContents(p)
              /\ db = [enabled |-> e, user_id |-> u, files |-> fs]

JobSearchDBReadStep ==
    \E filepath \in {"applications.json", "profile.json"} :
        JobSearchDB_read(filepath)

InterviewDBReadStep == InterviewDB_read("questions.json")

JobSearchDBWriteStep ==
    \E filepath \in {"applications.json", "profile.json"} :
        \E data \in ValuesOf(filepath) : JobSearchDB_write(filepath, data)

NextJson ==
    \/ JobSearchDBReadStep
    \/ InterviewDBReadStep
    \/ JobSearchDBWriteStep

SpecJson == InitJson /\ [][NextJson]_vars

\* The applications of one JobSearchDB, from its construction.  An added
\* application has a new id (create_application draws a uuid).
AddApplicationStep ==
    \E app \in Applications :
        /\ Len(ReadApplications) < MaxApps
        /\ \A i \in 1..Len(ReadApplications) :
               ReadApplications[i]["id"] # app.id
        /\ add_application(app)

Updates ==
    {[company |-> c] : c \in Companies} \cup {[status |-> st] : st \in Statuses}
    \cup {[no_such_field |-> "x"]}

UpdateApplicationStep ==
    \E app_id \in AppIds, updates \in Updates :
        update_application(app_id, updates)

UpdateStatusStep ==
    \E app_id \in AppIds, new_status \in Statuses :
        update_status(app_id, new_status)

DeleteApplicationStep == \E app_id \in AppIds : delete_application(app_id)

NextApplications ==
    \/ AddApplicationStep
    \/ UpdateApplicationStep
    \/ UpdateStatusStep
    \/ DeleteApplicationStep

SpecApplications == Init /\ [][NextApplications]_vars

---------------------------------------------------------------------------
(* The claims *)

IdsOf(md) == {md[i]["id"] : i \in 1..Len(md)}

Distinct(s) == \A i, j \in 1..Len(s) : i # j => s[i] # s[j]

\* the entries of s at the positions of keep, in order
RECURSIVE AtPositions(_, _, _)
AtPositions(s, keep, i) ==
    IF i > Len(s)
    THEN <<>>
    ELSE (IF i \in keep THEN <<s[i]>> ELSE <<>>) \o AtPositions(s, keep, i + 1)

\* C1: from a newly created store, after any sequence of add_texts,
\* add_documents and delete calls, self.vectors and self.metadata have the
\* same length.
C1_SameLength == Len(vectors) = Len(metadata)

\* a delete of some ids has run and entries remain
C1_Witness ==
    /\ last.op = "delete"
    /\ last.args[1] # <<>>
    /\ Len(vectors) >= 1
    /\ Len(metadata) >= 1

\* C2: in every state of a store, get_collection_stats returns
\* document_count equal to vector_count, also right after opening a directory
\* one of whose artifacts failed to load or was not written.
C2_StatsAgree ==
    isOpen => get_collection_stats.document_count = get_collection_stats.vector_count

\* C3: every id add_texts generates differs from the id of every entry in the
\* collection and from the other ids of the same call, whatever the clock
\* returns.
C3_FreshIds ==
    [][(last'.op = "add_texts" /\ ~last'.raised)
           => /\ \A j \in 1..Len(last'.ret) : last'.ret[j] \notin IdsOf(metadata)
              /\ Distinct(last'.ret)]_vars

\* C4: an entry added by an add_texts call that returned, whose id was not
\* passed to delete, is in the collection in memory and in the persisted
\* metadata in every later state.
C4_CommittedRemain ==
    \A id \in committed :
        /\ isOpen => id \in IdsOf(metadata)
        /\ metadata_file.st = "ok"
        /\ id \in IdsOf(_load_metadata(metadata_file, TRUE))

\* C5: when a save of add_texts or delete fails, the call raises.
C5_SaveFailureRaises ==
    [][\A vout \in SaveOutcomes, mout \in SaveOutcomes :
           (/\ vout # "ok" \/ mout # "ok"
            /\ \/ /\ last'.op = "add_texts"
                  /\ last'.args[1] # <<>>
                  /\ \E clk \in [1..Len(last'.args[1]) -> TimeVals \X TimeVals] :
                         add_texts(last'.args[1], last'.args[2], clk, TRUE,
                                   vout, mout, FALSE)
               \/ /\ last'.op = "delete"
                  /\ last'.args[1] # <<>>
                  /\ delete(last'.args[1], vout, mout, FALSE))
           => last'.raised]_vars

\* C6: opening a store one of whose artifacts cannot be loaded does not raise
\* and gives an empty collection: no vectors and no entries.
C6_FailedLoadOpensEmpty ==
    [][\A vreadable \in BOOLEAN, mreadable \in BOOLEAN :
           (/\ last'.op = "__init__"
            /\ Open(last'.args[1], vreadable, mreadable)
            /\ \/ LoadFails(vectors_file, vreadable)
               \/ LoadFails(metadata_file, mreadable))
           => (~last'.raised /\ vectors' = <<>> /\ metadata' = <<>>)]_vars

\* C7: a delete each of whose ids is not the id of an entry, or was passed
\* to the delete call just before (which deleted it), does not raise and
\* leaves self.vectors and self.metadata as they were.
C7_IdempotentDelete ==
    [][(/\ last'.op = "delete"
        /\ \A n \in 1..Len(last'.args[1]) :
               \/ \A i \in 1..Len(metadata) : ~HasId(metadata[i], last'.args[1][n])
               \/ last.op = "delete" /\ last'.args[1][n] \in Range(last.args[1]))
           => (~last'.raised /\ vectors' = vectors /\ metadata' = metadata)]_vars

\* C8: on an aligned collection, delete(ids) with distinct ids removes
\* exactly the entries whose id is in ids, each with its vector, and leaves
\* the others in their order.
C8_DeleteExactly ==
    [][(/\ last'.op = "delete"
        /\ Distinct(last'.args[1])
        /\ Len(vectors) = Len(metadata))
           => LET keep == {i \in 1..Len(metadata) :
                               metadata[i]["id"] \notin Range(last'.args[1])}
              IN  /\ metadata' = AtPositions(metadata, keep, 1)
                  /\ vectors' = AtPositions(vectors, keep, 1)]_vars

\* C9: without I/O failure, a store opened on the directory holds the vectors
\* and the entries, in order, that the instance before it held in memory.
C9_ReopenSame ==
    [][last'.op = "__init__" => (vectors' = vectors /\ metadata' = metadata)]_vars

\* a store was opened on a collection that has seen a delete (its first
\* entry was not added first) and holds caller metadata
C9_Witness ==
    /\ last.op = "__init__"
    /\ Len(metadata) >= 1
    /\ Len(vectors) = Len(metadata)
    /\ metadata[1]["id"][2] > 0
    /\ "source" \in DOMAIN metadata[1]

\* C10: on a non-empty aligned collection, similarity_search_with_score
\* returns min(k, n) entries, each with its cosine to the query, in
\* descending order of score, and no entry left out scores higher than a
\* returned one.
C10_TopK ==
    (/\ last.op = "similarity_search_with_score"
     /\ ~last.raised
     /\ vectors # <<>>
     /\ Len(vectors) = Len(metadata))
    => LET q == embed_query(embedding, last.args[1])
           k == last.args[2]
           n == Len(vectors)
           m == IF k < n THEN k ELSE n
           score(i) == _cosine_similarity(q, vectors[i])
       IN  /\ Len(last.ret) = m
           /\ \E pick \in [1..m -> 1..n] :
                  /\ \A i, j \in 1..m : i # j => pick[i] # pick[j]
                  /\ \A j \in 1..m :
                         last.ret[j] = <<ToDocument(metadata[pick[j]]), score(pick[j])>>
                  /\ \A j \in 1..(m - 1) : score(pick[j]) >= score(pick[j + 1])
                  /\ \A i \in 1..n : \A j \in 1..m :
                         (\A h \in 1..m : pick[h] # i) => score(i) <= score(pick[j])

\* a search returned fewer entries than the collection holds, of different
\* scores
C10_Witness ==
    /\ last.op = "similarity_search_with_score"
    /\ Len(last.ret) >= 2
    /\ Len(last.ret) < Len(vectors)
    /\ last.ret[1][2] > last.ret[2][2]

\* the cosine of the query text q to the vector at position i
ScoreOf(q, i) == _cosine_similarity(embed_query(embedding, q), vectors[i])

\* the positions ranked before position i: a higher score, or an equal score
\* and an earlier position
Ahead(q, i) ==
    {j \in 1..Len(vectors) :
        \/ ScoreOf(q, j) > ScoreOf(q, i)
        \/ ScoreOf(q, j) = ScoreOf(q, i) /\ j < i}

\* the position with p - 1 positions ranked before it
Ranked(q, p) == CHOOSE i \in 1..Len(vectors) : Cardinality(Ahead(q, i)) = p - 1

Searches == {"similarity_search", "similarity_search_with_score"}

\* the document of result p of the last search
DocOf(p) ==
    IF last.op = "similarity_search" THEN last.ret[p] ELSE last.ret[p][1]

\* C11: entries of equal score are ranked in insertion order: result p of a
\* search is the entry with exactly p - 1 entries of a higher score, or of an
\* equal score and an earlier position; so among equal scores the earlier
\* positions come first and are the ones that make the cut at k.
C11_TiesInInsertionOrder ==
    (/\ last.op \in Searches
     /\ ~last.raised
     /\ vectors # <<>>
     /\ Len(vectors) = Len(metadata))
    => LET q == last.args[1]
           k == last.args[2]
           n == Len(vectors)
       IN  /\ Len(last.ret) = IF k < n THEN k ELSE n
           /\ \A p \in 1..Len(last.ret) :
                  DocOf(p) = ToDocument(metadata[Ranked(q, p)])

\* a search returned one entry out of two different ones of equal, highest
\* score: the other one missed the cut
C11_Witness ==
    /\ last.op = "similarity_search_with_score"
    /\ ~last.raised
    /\ Len(last.ret) = 1
    /\ Len(vectors) >= 2
    /\ Len(vectors) = Len(metadata)
    /\ ScoreOf(last.args[1], 1) = ScoreOf(last.args[1], 2)
    /\ \A i \in 1..Len(vectors) : ScoreOf(last.args[1], i) <= ScoreOf(last.args[1], 1)
    /\ metadata[1]["text"] # metadata[2]["text"]

\* C12: on an aligned collection of n entries, similarity_search(query, k)
\* with k >= 1 whose embedding of the query succeeds does not raise and
\* returns min(k, n) results: all n when k exceeds n, never more than k.
C12_MinKN ==
    (/\ last.op = "similarity_search"
     /\ last.args[2] >= 1
     /\ last.provider # "raised"
     /\ Len(vectors) = Len(metadata))
    => /\ ~last.raised
       /\ Len(last.ret) = IF last.args[2] < Len(metadata)
                          THEN last.args[2]
                          ELSE Len(metadata)

\* a search asked for more entries than the collection holds and got them all
C12_Witness ==
    /\ last.op = "similarity_search"
    /\ ~last.raised
    /\ Len(metadata) >= 2
    /\ Len(vectors) = Len(metadata)
    /\ last.args[2] > Len(metadata)
    /\ Len(last.ret) = Len(metadata)

\* C13: on a collection with no entries, similarity_search and
\* similarity_search_with_score return an empty sequence for every k and do
\* not raise, whether or not the embedding provider would raise: it is not
\* called.
C13_EmptySearch ==
    [][(/\ last'.op \in Searches
        /\ vectors = <<>>
        /\ metadata = <<>>)
           => (/\ ~last'.raised
               /\ last'.ret = <<>>
               /\ last'.provider = "unused")]_vars

\* a search ran on a collection emptied by a delete
C13_Witness ==
    /\ last.op \in Searches
    /\ vectors = <<>>
    /\ metadata = <<>>
    /\ vectors_file.st = "ok"
    /\ last.ret = <<>>

\* C14: add_texts([]) returns [] and changes nothing: the embedding provider
\* is not called, self.vectors and self.metadata are as before, and neither
\* artifact is written.
C14_AddNothing ==
    [][(last'.op = "add_texts" /\ last'.args[1] = <<>>)
           => (/\ ~last'.raised
               /\ last'.ret = <<>>
               /\ last'.provider = "unused"
               /\ vectors' = vectors
               /\ metadata' = metadata
               /\ vectors_file' = vectors_file
               /\ metadata_file' = metadata_file)]_vars

\* add_texts([]) ran on a collection with entries whose metadata artifact a
\* failed save left unusable: any write of it would show
C14_Witness ==
    /\ last.op = "add_texts"
    /\ last.args[1] = <<>>
    /\ Len(vectors) >= 1
    /\ metadata_file.st = "corrupt"

\* C15: add_texts on non-empty texts that returns gives len(texts) ids and
\* appends len(texts) vectors and entries after the existing ones, in input
\* order: appended entry j has the j-th returned id and texts[j], and
\* appended vector j is the embedding of texts[j].
C15_AppendsInOrder ==
    [][(/\ last'.op = "add_texts"
        /\ ~last'.raised
        /\ last'.args[1] # <<>>)
           => LET texts == last'.args[1]
                  n == Len(texts)
              IN  /\ Len(last'.ret) = n
                  /\ Len(vectors') = Len(vectors) + n
                  /\ Len(metadata') = Len(metadata) + n
                  /\ SubSeq(vectors', 1, Len(vectors)) = vectors
                  /\ SubSeq(metadata', 1, Len(metadata)) = metadata
                  /\ \A j \in 1..n :
                         /\ metadata'[Len(metadata) + j]["id"] = last'.ret[j]
                         /\ metadata'[Len(metadata) + j]["text"] = texts[j]
                         /\ vectors'[Len(vectors) + j]
                                = embed_documents(embedding, texts)[j]]_vars

\* add_texts added two different texts in one call
C15_Witness ==
    /\ last.op = "add_texts"
    /\ ~last.raised
    /\ Len(last.ret) = 2
    /\ last.args[1][1] # last.args[1][2]
    /\ Len(metadata) = 2
    /\ metadata[2]["id"] = last.ret[2]

\* C16: whatever keys the caller's metadata has, the entry add_texts stores
\* for texts[j] has the j-th returned id as its id and texts[j] as its text.
C16_ReservedKept ==
    [][(/\ last'.op = "add_texts"
        /\ ~last'.raised
        /\ last'.args[1] # <<>>)
           => \A j \in 1..Len(last'.args[1]) :
                  /\ metadata'[Len(metadata) + j]["id"] = last'.ret[j]
                  /\ metadata'[Len(metadata) + j]["text"] = last'.args[1][j]]_vars

\* C17: each result of a search carries every key of the stored entry other
\* than id, text and timestamp, with its stored value, and carries neither
\* id nor timestamp; the search leaves the stored entries as they were.
C17_MetadataStripped ==
    [][(/\ last'.op \in Searches
        /\ ~last'.raised
        /\ Len(vectors) = Len(metadata))
           => /\ metadata' = metadata
              /\ \A p \in 1..Len(last'.ret) :
                     LET doc == IF last'.op = "similarity_search"
                                THEN last'.ret[p] ELSE last'.ret[p][1]
                         stored == metadata[Ranked(last'.args[1], p)]
                     IN  /\ DOMAIN doc.metadata \cap {"id", "timestamp"} = {}
                         /\ \A key \in DOMAIN stored \ {"id", "text", "timestamp"} :
                                /\ key \in DOMAIN doc.metadata
                                /\ doc.metadata[key] = stored[key]]_vars

\* a search returned an entry stored with a key and a timestamp of the
\* caller's
C17_Witness ==
    /\ last.op \in Searches
    /\ ~last.raised
    /\ Len(vectors) = Len(metadata)
    /\ Len(last.ret) >= 1
    /\ "source" \in DOMAIN DocOf(1).metadata
    /\ metadata[Ranked(last.args[1], 1)]["timestamp"] = 0

\* C18: when the embedding provider raises in add_texts or in a search, the
\* call raises, and no vector or entry is added and neither artifact is
\* written.
C18_ProviderErrorPropagates ==
    [][(/\ last'.op \in {"add_texts"} \cup Searches
        /\ last'.provider = "raised")
           => (/\ last'.raised
               /\ vectors' = vectors
               /\ metadata' = metadata
               /\ vectors_file' = vectors_file
               /\ metadata_file' = metadata_file)]_vars

\* the provider raised in an add_texts call on a collection with entries
C18_Witness ==
    /\ last.op = "add_texts"
    /\ last.provider = "raised"
    /\ last.raised
    /\ Len(vectors) >= 1
    /\ Len(metadata) >= 1

\* C19: a search whose query vector differs in length from a stored vector
\* raises; it returns no ranking.
C19_LengthMismatchRaises ==
    [][(/\ last'.op \in Searches
        /\ last'.provider = "ok"
        /\ \E i \in 1..Len(vectors) :
               Len(vectors[i]) # Len(embed_query(embedding, last'.args[1])))
           => (last'.raised /\ last'.ret = <<>>)]_vars

\* a search raised on a collection holding a vector of the query's length
\* and one of another length
C19_Witness ==
    /\ last.op \in Searches
    /\ last.raised
    /\ last.provider = "ok"
    /\ \E i, j \in 1..Len(vectors) :
           /\ Len(vectors[i]) = Len(embed_query(embedding, last.args[1]))
           /\ Len(vectors[j]) # Len(vectors[i])

\* C20: similarity_search and similarity_search_with_score called one after
\* the other (in either order) on the same store with the same query and k
\* return the same documents in the same order, and each pair of the scored
\* result holds the cosine of its entry to the query.
C20_SameRanking ==
    [][(/\ last.op \in Searches
        /\ last'.op \in Searches
        /\ last'.op # last.op
        /\ last'.args = last.args
        /\ ~last.raised
        /\ ~last'.raised
        /\ Len(vectors) = Len(metadata))
           => LET scored == IF last'.op = "similarity_search_with_score"
                            THEN last'.ret ELSE last.ret
                  docs == IF last'.op = "similarity_search"
                          THEN last'.ret ELSE last.ret
              IN  /\ Len(scored) = Len(docs)
                  /\ \A p \in 1..Len(scored) :
                         /\ scored[p][1] = docs[p]
                         /\ scored[p][2]
                                = ScoreOf(last.args[1], Ranked(last.args[1], p))]_vars

\* a scored search returned the whole collection, its first two documents
\* different
C20_Witness ==
    /\ last.op = "similarity_search_with_score"
    /\ ~last.raised
    /\ Len(last.ret) >= 2
    /\ Len(last.ret) = Len(vectors)
    /\ last.ret[1][1] # last.ret[2][1]

\* C21: after any sequence of add and delete calls on a new store, the
\* vector at position i is the embedding of the text of the entry at
\* position i: the two sequences have the same length and a delete removes
\* the same positions from both.
C21_VectorOfItsEntry ==
    /\ Len(vectors) = Len(metadata)
    /\ \A i \in 1..Len(metadata) :
           vectors[i] = embed_documents(embedding, <<metadata[i]["text"]>>)[1]

\* a delete removed an entry in front of one that remains, of another text
C21_Witness ==
    /\ last.op = "delete"
    /\ last.args[1] # <<>>
    /\ Len(metadata) >= 1
    /\ Len(vectors) = Len(metadata)
    /\ metadata[1]["id"][2] > 0
    /\ metadata[1]["text"] = "b"

\* C22: a delete is never seen partially applied: when the collection was
\* whole before a delete call (memory aligned, and both artifacts holding
\* what memory holds), then after the call, whether it returned or the
\* process stopped between the two saves or a save failed, memory is aligned
\* and a store opened on the directory loads as many vectors as entries.
C22_DeleteAllOrNothing ==
    [][(/\ \/ last'.op = "delete" /\ last'.args[1] # <<>>
           \/ last'.op = "stopped" /\ last'.args[1] = "delete"
        /\ Len(vectors) = Len(metadata)
        /\ ~LoadFails(vectors_file, TRUE)
        /\ ~LoadFails(metadata_file, TRUE)
        /\ _load_vectors(vectors_file, TRUE) = vectors
        /\ _load_metadata(metadata_file, TRUE) = metadata)
           => (/\ Len(vectors') = Len(metadata')
               /\ Len(_load_vectors(vectors_file', TRUE))
                      = Len(_load_metadata(metadata_file', TRUE)))]_vars

\* C23: add_texts leaves every existing entry and vector unchanged and at
\* its position, whether it returns or raises.
C23_AddKeepsExisting ==
    [][last'.op = "add_texts"
           => (/\ Len(vectors') >= Len(vectors)
               /\ Len(metadata') >= Len(metadata)
               /\ \A i \in 1..Len(vectors) : vectors'[i] = vectors[i]
               /\ \A i \in 1..Len(metadata) : metadata'[i] = metadata[i])]_vars

\* add_texts added a text to a collection holding an entry of another text
\* and caller metadata
C23_Witness ==
    /\ last.op = "add_texts"
    /\ ~last.raised
    /\ Len(last.ret) = 1
    /\ Len(metadata) = 2
    /\ Len(vectors) = 2
    /\ metadata[1]["text"] # metadata[2]["text"]
    /\ "source" \in DOMAIN metadata[1]

\* C24: in every reachable state, after any sequence of opens with any
\* embedding model, add_texts and delete calls on one directory, all stored
\* vectors have the same length.
C24_OneVectorLength ==
    \A i, j \in 1..Len(vectors) : Len(vectors[i]) = Len(vectors[j])

\* C25: a delete call with ids saves each artifact once, the vectors and
\* then the metadata, after all its removals: each artifact then holds the
\* sequence the call ends with.  A delete with no ids saves nothing.
C25_DeleteSavesOnce ==
    [][last'.op = "delete"
           => IF last'.args[1] = <<>>
              THEN /\ last'.saves = <<>>
                   /\ vectors_file' = vectors_file
                   /\ metadata_file' = metadata_file
              ELSE /\ last'.saves = <<"vectors.pkl", "metadata.json">>
                   /\ vectors_file' = [st |-> "ok", data |-> PickleDump(vectors')]
                   /\ metadata_file' = [st |-> "ok", data |-> JsonDump(metadata')]]_vars

\* a delete of two different ids removed two entries
C25_Witness ==
    /\ last.op = "delete"
    /\ Len(last.args[1]) = 2
    /\ last.args[1][1] # last.args[1][2]
    /\ Len(last.saves) = 2
    /\ vectors = <<>>
    /\ metadata_file = [st |-> "ok", data |-> <<>>]
    /\ committed = {}
    /\ vectors_file.st = "ok"

\* the entries of md whose id is not in ids, in order
Unnamed(md, ids) ==
    AtPositions(md, {i \in 1..Len(md) : md[i]["id"] \notin Range(ids)}, 1)

\* C28: a delete removes no entry whose id is not in its list, also when the
\* list names an id more than once.
C28_DeleteOnlyNamed ==
    [][(last'.op = "delete" /\ Len(vectors) = Len(metadata))
           => Unnamed(metadata', last'.args[1]) = Unnamed(metadata, last'.args[1])]_vars

\* C26: nothing merges or locks: each save of an instance replaces the
\* artifact by the whole sequence that instance holds in memory, whatever
\* another instance saved there before, so after an instance's two saves
\* that no other save came between the directory holds that instance's
\* collection.
C26_LastWriterWins ==
    [][\A w \in Writers :
           /\ (writers[w].pc = "idle" /\ writers'[w].pc = "saving_metadata")
                  => vectors_file'
                         = [st |-> "ok", data |-> PickleDump(writers'[w].vectors)]
           /\ (writers[w].pc = "saving_metadata" /\ writers'[w].pc = "idle")
                  => /\ metadata_file'
                            = [st |-> "ok", data |-> JsonDump(writers'[w].metadata)]
                     /\ vectors_file = [st |-> "ok",
                                        data |-> PickleDump(writers[w].vectors)]
                            => /\ _load_vectors(vectors_file', TRUE)
                                      = writers'[w].vectors
                               /\ _load_metadata(metadata_file', TRUE)
                                      = writers'[w].metadata]_vars

\* both instances' add_texts calls have returned, the directory holds the
\* collection of B, and an id that A's call returned is not in it
C26_Witness ==
    /\ \A w \in Writers : writers[w].pc = "idle" /\ writers[w].ret # <<>>
    /\ metadata_file.st = "ok"
    /\ vectors_file.st = "ok"
    /\ _load_metadata(metadata_file, TRUE) = writers["B"].metadata
    /\ _load_vectors(vectors_file, TRUE) = writers["B"].vectors
    /\ \E id \in Range(writers["A"].ret) :
           id \notin IdsOf(_load_metadata(metadata_file, TRUE))

\* C29: with two instances writing one directory, whenever no call is
\* between its two saves the two artifacts hold the same number of entries.
C29_WritersLeaveAligned ==
    (/\ \A w \in Writers : writers[w].pc # "saving_metadata"
     /\ vectors_file.st = "ok"
     /\ metadata_file.st = "ok")
    => Len(_load_vectors(vectors_file, TRUE)) = Len(_load_metadata(metadata_file, TRUE))

\* the bytes of a file are the plain dump of value
PlainJsonOf(bytes, value) == bytes = WrittenJson(value, FALSE, "u1")

\* C27: with encryption enabled, a read of a non-empty file that fails to
\* decrypt returns the file's plain JSON content when the bytes are plain
\* JSON, with nothing printed and nothing raised; when the bytes are not
\* plain JSON either it returns the empty default, [] or {} for the profile.
C27_PlainFallback ==
    [][(/\ last'.op \in {"JobSearchDB._read_json", "InterviewDB._read_json"}
        /\ db.enabled
        /\ db.files[last'.args[1]].key # "missing"
        /\ db.files[last'.args[1]].text[1] # "empty"
        /\ DecryptRaises(db.files[last'.args[1]], db.user_id))
       => /\ ~last'.raised
          /\ IF \E v \in JsonValues : PlainJsonOf(db.files[last'.args[1]], v)
             THEN /\ PlainJsonOf(db.files[last'.args[1]], last'.ret.value)
                  /\ ~last'.ret.printed
             ELSE /\ last'.ret.value = IF last'.args[1] = "profile.json"
                                        THEN EmptyObject ELSE EmptyList
                  /\ last'.ret.printed]_vars

\* an encrypting store has read a plain file of one record and returned it
C27_Witness ==
    /\ last.op = "JobSearchDB._read_json"
    /\ db.enabled
    /\ PlainJsonOf(db.files[last.args[1]], <<"list", <<OneRecord>>>>)
    /\ last.ret = [value |-> <<"list", <<OneRecord>>>>, printed |-> FALSE]

\* the applications the applications file holds
ApplicationsOnFile == JsonLoads(db.files["applications.json"].text)[2]

ActivePair(a, b) ==
    /\ Lower(a["company"]) = Lower(b["company"])
    /\ Lower(a["role"]) = Lower(b["role"])
    /\ a["status"] \notin ClosedStatuses
    /\ b["status"] \notin ClosedStatuses

\* C30: after any sequence of add_application, update_application,
\* update_status and delete_application the applications file never holds two
\* applications of the same company and role, compared without case, that
\* both have a status outside rejected / withdrawn / accepted.
C30_NoActiveDuplicates ==
    \A i, j \in 1..Len(ApplicationsOnFile) :
        i # j => ~ActivePair(ApplicationsOnFile[i], ApplicationsOnFile[j])

====
